---- MODULE Spec2Model ----
(***************************************************************************)
(* Flipkart stock notifier: the poll loop of monitor_product, the          *)
(* Located-API check (check_stock_with_pincode) with its fallback to the   *)
(* HTML scrape (check_stock), and the label derivation both use.           *)
(*                                                                         *)
(* Strings are sequences of tokens.  A URL, a <title> text and a span text *)
(* are sequences of one-character tokens (plus a few multi-character       *)
(* tokens that contain no separator: "https:", "F" for "Flipkart.com");    *)
(* a literal of the program is a single token.                             *)
(***************************************************************************)
EXTENDS Integers, Sequences, FiniteSets, TLC

VARIABLES product_url, post_code, scraperapi_key,
          pc, in_stock, product_name,
          api_response, page_response,
          api_calls, scrape_calls, notify_calls, delivery,
          tick, checks_in_stock, notifications

vars == <<product_url, post_code, scraperapi_key, pc, in_stock, product_name,
          api_response, page_response, api_calls, scrape_calls, notify_calls,
          delivery, tick, checks_in_stock, notifications>>

config == <<product_url, post_code, scraperapi_key>>

(***************************************************************************)
(* Bounds of the model.                                                    *)
(***************************************************************************)
MaxTicks == 2
MaxSegs == 3
MaxTitleParts == 3

(***************************************************************************)
(* Python string operations, on token sequences.                           *)
(***************************************************************************)
\* truth value of a configuration string (os.getenv gives None or a string)
\* and of a JSON scalar, as `if x:` and `a and b` test it
Truthy(v) == v \notin {"None", "", "false", "null"}

\* s.count(c)
Count(s, c) == Cardinality({i \in 1..Len(s) : s[i] = c})

\* does sep occur in s at position i
OccursAt(s, sep, i) ==
    /\ i >= 1
    /\ i + Len(sep) - 1 <= Len(s)
    /\ \A k \in 1..Len(sep) : s[i + k - 1] = sep[k]

\* s.split(sep)[0]: the text before the first occurrence of sep
SplitFirst(s, sep) ==
    LET hits == {i \in 1..Len(s) : OccursAt(s, sep, i)}
    IN  IF hits = {} THEN s
        ELSE LET i == CHOOSE h \in hits : \A g \in hits : h <= g
             IN  SubSeq(s, 1, i - 1)

\* s.split('/'): every part, in order
RECURSIVE Split(_, _)
Split(s, c) ==
    LET hits == {i \in 1..Len(s) : s[i] = c}
    IN  IF hits = {} THEN <<s>>
        ELSE LET i == CHOOSE h \in hits : \A g \in hits : h <= g
             IN  <<SubSeq(s, 1, i - 1)>> \o Split(SubSeq(s, i + 1, Len(s)), c)

\* s.strip(): leading and trailing whitespace removed
Strip(s) ==
    LET solid == {i \in 1..Len(s) : s[i] # " "}
    IN  IF solid = {} THEN <<>>
        ELSE LET lo == CHOOSE h \in solid : \A g \in solid : h <= g
                 hi == CHOOSE h \in solid : \A g \in solid : h >= g
             IN  SubSeq(s, lo, hi)

\* s.replace('-', ' ')
ReplaceDash(s) == [i \in 1..Len(s) |-> IF s[i] = "-" THEN " " ELSE s[i]]

Letters == {"a", "b", "A", "B"}
Upper(c) == IF c = "a" THEN "A" ELSE IF c = "b" THEN "B" ELSE c
Lower(c) == IF c = "A" THEN "a" ELSE IF c = "B" THEN "b"
            ELSE IF c = "F" THEN "flipkart.com" ELSE c

\* s.title(): a letter that starts a word is upper-cased, any other lowered
Title(s) ==
    [i \in 1..Len(s) |->
        IF s[i] \in Letters
        THEN IF i = 1 \/ s[i - 1] \notin Letters THEN Upper(s[i]) ELSE Lower(s[i])
        ELSE s[i]]

\* s.lower()
LowerAll(s) == [i \in 1..Len(s) |-> Lower(s[i])]

\* product_url.split('/')[-2].replace('-', ' ').title()
\*     if product_url.count('/') > 3 else <placeholder>
NameFromUrl(url, placeholder) ==
    IF Count(url, "/") > 3
    THEN LET parts == Split(url, "/")
         IN  Title(ReplaceDash(parts[Len(parts) - 1]))
    ELSE placeholder

(***************************************************************************)
(* Literals of the program.                                                *)
(***************************************************************************)
UnknownProduct == <<"Unknown Product">>
ProductViaApi == <<"Product via API">>
ProductPlaceholder == <<"Product">>
TimeoutLabel == <<"Error fetching product (Timeout)">>
HttpLabel(code) == <<"Error fetching product (HTTP ", code, ")">>
ParseErrorLabel == <<"Error parsing product data">>
LoopDefaultName(url) == <<"Unknown Product (">> \o url \o <<")">>

(***************************************************************************)
(* requests: exception classes and status handling.                        *)
(***************************************************************************)
\* isinstance(e, cls) for the classes the except clauses name
IsA(e, cls) ==
    \/ cls = "Exception"
    \/ e = cls
    \/ cls = "RequestException" /\ e \in {"Timeout", "ConnectionError", "HTTPError"}

\* response.raise_for_status(): HTTPError for a 4xx/5xx status
RaiseForStatus(code) == code >= 400 /\ code < 600

\* bool(response) is response.ok: False exactly when raise_for_status raises
ResponseTruthy(code) == ~RaiseForStatus(code)

\* the exception that leaves requests.get/post + raise_for_status, or "none"
TransportException(r) ==
    IF r.exc # "none" THEN r.exc
    ELSE IF RaiseForStatus(r.status_code) THEN "HTTPError"
    ELSE "none"

(***************************************************************************)
(* check_stock: the scrape of the product page.                            *)
(***************************************************************************)
\* lines 181-194: the product name from <title>, the B_NuCI span or the URL
PageProductName(url, page) ==
    IF ~page.has_title THEN UnknownProduct
    ELSE LET full_title == Strip(page.title)
             cleaned == Strip(SplitFirst(SplitFirst(full_title, <<" ", "-", " ">>), <<"|">>))
         IN  IF (\E i \in 1..Len(cleaned) : LowerAll(cleaned)[i] = "flipkart.com")
                \/ cleaned = <<>>
             THEN IF page.has_span THEN Strip(page.span)
                  ELSE NameFromUrl(url, ProductPlaceholder)
             ELSE cleaned

json_ld_stock_match(page) == "jsonld_InStock" \in page.markers
buy_now_button_present(page) ==
    "text_BUY_NOW" \in page.markers \/ "styled_button" \in page.markers
sold_out_present(page) ==
    "text_SOLD_OUT" \in page.markers \/ "text_NOTIFY_ME" \in page.markers
json_ld_out_of_stock_match(page) == "jsonld_OutOfStock" \in page.markers

\* the out-of-stock indicators tested before the purchase signals
PageInStock_soldOutFirst(page) ==
    IF sold_out_present(page) \/ json_ld_out_of_stock_match(page) THEN FALSE
    ELSE IF json_ld_stock_match(page) THEN TRUE
    ELSE IF buy_now_button_present(page) THEN TRUE
    ELSE FALSE

\* an ambiguous page taken as in stock
PageInStock_ambiguousInStock(page) ==
    IF json_ld_stock_match(page) THEN TRUE
    ELSE IF buy_now_button_present(page) THEN TRUE
    ELSE IF sold_out_present(page) \/ json_ld_out_of_stock_match(page) THEN FALSE
    ELSE TRUE

\* lines 197-222: the stock signals, in the order the code tests them
PageInStock(page) ==
    IF json_ld_stock_match(page) THEN TRUE
    ELSE IF buy_now_button_present(page) THEN TRUE
    ELSE IF sold_out_present(page) \/ json_ld_out_of_stock_match(page) THEN FALSE
    ELSE FALSE

\* lines 168-176: the transport of the page fetch
PageTransport(key) ==
    IF Truthy(key) THEN [via |-> "scraperapi", timeout |-> 60]
    ELSE [via |-> "direct", timeout |-> 20]

\* only the timeout is handled, any other exception leaves check_stock
CheckStockHandler_reraise(e, code) ==
    IF IsA(e, "Timeout")
    THEN [in_stock |-> FALSE, label |-> TimeoutLabel, raised |-> FALSE,
          api_requests |-> 0, page_fetches |-> 1]
    ELSE [in_stock |-> FALSE, label |-> <<>>, raised |-> TRUE,
          api_requests |-> 0, page_fetches |-> 1]

\* lines 224-232: the except clauses of check_stock, first match wins
CheckStockHandler(e, code) ==
    IF IsA(e, "Timeout")
    THEN [in_stock |-> FALSE, label |-> TimeoutLabel, raised |-> FALSE,
          api_requests |-> 0, page_fetches |-> 1]
    ELSE IF IsA(e, "RequestException")
    THEN [in_stock |-> FALSE,
          label |-> HttpLabel(IF e = "HTTPError" /\ ResponseTruthy(code)
                              THEN ToString(code) ELSE "Error"),
          raised |-> FALSE, api_requests |-> 0, page_fetches |-> 1]
    ELSE [in_stock |-> FALSE, label |-> ParseErrorLabel, raised |-> FALSE,
          api_requests |-> 0, page_fetches |-> 1]

\* check_stock(product_url), given what the one fetch returned
CheckStock(url, page) ==
    LET e == TransportException(page)
    IN  IF e # "none" THEN CheckStockHandler(e, page.status_code)
        ELSE [in_stock |-> PageInStock(page),
              label |-> PageProductName(url, page),
              raised |-> FALSE, api_requests |-> 0, page_fetches |-> 1]

(***************************************************************************)
(* check_stock_with_pincode: the Located-API check.                        *)
(***************************************************************************)
\* data['RESPONSE']['pageData']['pageContext']: "none", "KeyError", "TypeError"
ContextLookup(doc) ==
    IF doc.ctx = "absent" THEN "KeyError"
    ELSE IF doc.ctx = "notdict" THEN "TypeError"
    ELSE "none"

\* line 124: ...['titles']['title']
TitleLookup(doc) ==
    IF ContextLookup(doc) # "none" THEN ContextLookup(doc)
    ELSE IF doc.title = "absent" THEN "KeyError"
    ELSE "none"

\* lines 130-133: the three stock lookups, in order; the first error wins
StockLookup(doc) ==
    IF ContextLookup(doc) # "none" THEN ContextLookup(doc)
    ELSE IF doc.pls = "absent" THEN "KeyError"
    ELSE IF doc.pls = "notdict" THEN "TypeError"
    ELSE IF doc.availabilityStatus = "absent" THEN "KeyError"
    ELSE IF doc.isAvailable = "absent" THEN "KeyError"
    ELSE IF doc.serviceable = "absent" THEN "KeyError"
    ELSE "none"

\* a test that forgets the serviceability flag
ApiInStock_noServiceable(doc) ==
    doc.availabilityStatus = "IN_STOCK" /\ Truthy(doc.isAvailable)

\* line 135
ApiInStock(doc) ==
    doc.availabilityStatus = "IN_STOCK" /\ Truthy(doc.isAvailable)
        /\ Truthy(doc.serviceable)

\* lines 80-81 and 123-126: the name the API path would report
ApiProductName(url, doc) ==
    IF TitleLookup(doc) = "none" THEN <<doc.title>>
    ELSE NameFromUrl(url, ProductViaApi)

\* the exception that leaves lines 84-119, or "none"
ApiException(r) ==
    IF TransportException(r) # "none" THEN TransportException(r)
    ELSE IF ~r.is_json THEN "JSONDecodeError"
    ELSE "none"

\* only the timeout and the HTTP status error are handled
ApiHandles_narrow(e) == IsA(e, "Timeout") \/ IsA(e, "HTTPError")

\* lines 147-158: the except clauses around the API request
ApiHandles(e) ==
    \/ IsA(e, "Timeout")
    \/ IsA(e, "HTTPError")
    \/ IsA(e, "RequestException")
    \/ IsA(e, "Exception")

\* the scrape is also tried when the API says out of stock
ApiFallsBack_onOutOfStock(r) ==
    IF ApiException(r) # "none" THEN ApiHandles(ApiException(r))
    ELSE StockLookup(r) \in {"KeyError", "TypeError"} \/ ~ApiInStock(r)

\* lines 142-158: is the API attempt abandoned for the scrape
ApiFallsBack(r) ==
    IF ApiException(r) # "none" THEN ApiHandles(ApiException(r))
    ELSE StockLookup(r) \in {"KeyError", "TypeError"}

\* lines 84-116: the transport of the API request
ApiTransport(key) ==
    IF Truthy(key) THEN [via |-> "scraperapi", timeout |-> 60]
    ELSE [via |-> "direct", timeout |-> 30]

\* a fallback that keeps the title the API response carried
CheckStockWithPincode_leak(url, r, page) ==
    IF ApiFallsBack(r)
    THEN [CheckStock(url, page) EXCEPT
            !.api_requests = 1,
            !.label = IF ApiException(r) = "none" /\ TitleLookup(r) = "none"
                      THEN <<r.title>> ELSE @]
    ELSE IF ApiException(r) # "none"
    THEN [in_stock |-> FALSE, label |-> <<>>, raised |-> TRUE,
          api_requests |-> 1, page_fetches |-> 0]
    ELSE [in_stock |-> ApiInStock(r),
          label |-> ApiProductName(url, r),
          raised |-> FALSE, api_requests |-> 1, page_fetches |-> 0]

\* check_stock_with_pincode(product_url), given the API response and, for
\* the fallback, what the page fetch returned
CheckStockWithPincode(url, r, page) ==
    IF ApiFallsBack(r)
    THEN [CheckStock(url, page) EXCEPT !.api_requests = 1]
    ELSE IF ApiException(r) # "none"
    THEN [in_stock |-> FALSE, label |-> <<>>, raised |-> TRUE,
          api_requests |-> 1, page_fetches |-> 0]
    ELSE [in_stock |-> ApiInStock(r),
          label |-> ApiProductName(url, r),
          raised |-> FALSE, api_requests |-> 1, page_fetches |-> 0]

(***************************************************************************)
(* send_telegram_notification and the loop of monitor_product.             *)
(***************************************************************************)
\* a send whose failure is not caught
SendRaises_uncaught(outcome) == outcome # "sent"

\* lines 241-249: does a failed send_message leave the method as an exception
SendRaises(outcome) ==
    IF outcome = "sent" THEN FALSE
    ELSE ~IsA(outcome, "Exception")

\* a loop that notifies only the first time in a window
NotifyDue_dedup(stock) == stock /\ notifications = 0

\* line 277: `if in_stock:`
NotifyDue(stock) == stock

(***************************************************************************)
(* Inputs: what the network returns.                                       *)
(***************************************************************************)
SeqsUpTo(S, n) == UNION {[1..k -> S] : k \in 0..n}

RECURSIVE Concat(_)
Concat(ss) == IF ss = <<>> THEN <<>> ELSE Head(ss) \o Concat(Tail(ss))

RECURSIVE JoinPath(_)
JoinPath(segs) == IF segs = <<>> THEN <<>>
                  ELSE <<"/">> \o Head(segs) \o JoinPath(Tail(segs))

Scheme == <<"https:", "/", "/", "h">>
Segs == {<<>>, <<"a">>, <<"a", "-", "b">>}
Queries == {<<>>, <<"?", "a">>, <<"?", "a", "/", "/", "b">>}
MkUrl(segs, q) == Scheme \o JoinPath(segs) \o q

Urls == {MkUrl(segs, q) : segs \in SeqsUpTo(Segs, MaxSegs), q \in Queries}
TypicalUrl == MkUrl(<<<<"a", "-", "b">>, <<"a">>, <<"b">>>>, <<>>)
Urls0 == {TypicalUrl}

TitleParts == {<<"a">>, <<" ", "-", " ">>, <<"|">>, <<"F">>, <<" ">>, <<"-">>}
Titles == {Concat(ps) : ps \in SeqsUpTo(TitleParts, MaxTitleParts)}
TypicalTitle == <<"a", " ", "-", " ", "F">>
Titles0 == {TypicalTitle, <<"F">>, <<>>}
Spans == {<<>>, <<"a">>, <<" ">>}

Markers == {"jsonld_InStock", "text_BUY_NOW", "styled_button",
            "text_SOLD_OUT", "text_NOTIFY_ME", "jsonld_OutOfStock"}

NoPage == [exc |-> "not_called", status_code |-> 0, via |-> "none",
           timeout |-> 0, has_title |-> FALSE,
           title |-> <<>>, has_span |-> FALSE, span |-> <<>>, markers |-> {}]

FailedPages ==
    {[NoPage EXCEPT !.exc = e] : e \in {"Timeout", "ConnectionError"}}
    \cup {[NoPage EXCEPT !.exc = "none", !.status_code = c] : c \in {404, 503}}

OkPages(titles, spans, markerSets) ==
    {[exc |-> "none", status_code |-> 200, via |-> "none", timeout |-> 0,
      has_title |-> ht, title |-> t,
      has_span |-> hs, span |-> sp, markers |-> m] :
        ht \in BOOLEAN, t \in titles, hs \in BOOLEAN, sp \in spans,
        m \in markerSets}

\* a page without <title> (or span) carries no title (span) text
Canonical(pages) ==
    {p \in pages : (~p.has_title => p.title = <<>>) /\ (~p.has_span => p.span = <<>>)}

Pages == FailedPages
         \cup Canonical(OkPages({TypicalTitle}, {<<>>}, SUBSET Markers))

LabelPages(url) ==
    {[NoPage EXCEPT !.exc = "Timeout"]}
    \cup Canonical(OkPages(IF url \in Urls0 THEN Titles ELSE Titles0,
                           Spans, {{}, {"jsonld_InStock"}}))

NoApi == [exc |-> "not_called", status_code |-> 0, via |-> "none",
          timeout |-> 0, is_json |-> FALSE,
          ctx |-> "absent", title |-> "absent", pls |-> "absent",
          availabilityStatus |-> "absent", isAvailable |-> "absent",
          serviceable |-> "absent"]

StatusValues == {"IN_STOCK", "OUT_OF_STOCK", "in_stock"}
FlagValues == {"true", "false", "null"}

ApiDocs ==
    {[exc |-> "none", status_code |-> 200, via |-> "none", timeout |-> 0,
      is_json |-> TRUE, ctx |-> c,
      title |-> t, pls |-> p, availabilityStatus |-> st, isAvailable |-> av,
      serviceable |-> sv] :
        c \in {"dict", "absent", "notdict"}, t \in {"absent", "T"},
        p \in {"dict", "absent", "notdict"},
        st \in StatusValues \cup {"absent"}, av \in FlagValues \cup {"absent"},
        sv \in FlagValues \cup {"absent"}}

\* fields below a missing container are missing too
WellNested(d) ==
    /\ d.ctx # "dict" =>
         d.title = "absent" /\ d.pls = "absent" /\ d.serviceable = "absent"
    /\ d.pls # "dict" =>
         d.availabilityStatus = "absent" /\ d.isAvailable = "absent"

FailedApi ==
    {[NoApi EXCEPT !.exc = e] : e \in {"Timeout", "ConnectionError"}}
    \cup {[NoApi EXCEPT !.exc = "none", !.status_code = c] : c \in {404, 503}}
    \cup {[NoApi EXCEPT !.exc = "none", !.status_code = 200]}

ApiResponses == FailedApi \cup {d \in ApiDocs : WellNested(d)}

LabelApiResponses ==
    {[NoApi EXCEPT !.exc = "Timeout"]}
    \cup {d \in ApiDocs : /\ WellNested(d)
                          /\ StockLookup(d) = "none"
                          /\ d.isAvailable = "true" /\ d.serviceable = "true"
                          /\ d.availabilityStatus # "in_stock"}

(***************************************************************************)
(* The state machine.                                                      *)
(***************************************************************************)
InitWith(urls) ==
    /\ product_url \in urls
    /\ post_code \in {"None", "560001"}
    /\ scraperapi_key \in {"None", "KEY"}
    /\ pc = "check"
    /\ in_stock = FALSE
    /\ product_name = LoopDefaultName(product_url)
    /\ api_response = NoApi
    /\ page_response = NoPage
    /\ api_calls = 0
    /\ scrape_calls = 0
    /\ notify_calls = 0
    /\ delivery = "none"
    /\ tick = 0
    /\ checks_in_stock = 0
    /\ notifications = 0

Init == InitWith(Urls0)

\* lines 270-288 up to the await: the result of the check is stored and
\* the loop goes on to the notification or to the sleep
Dispatch(res, r, page) ==
    /\ in_stock' = res.in_stock
    /\ product_name' = res.label
    /\ api_calls' = res.api_requests
    /\ scrape_calls' = res.page_fetches
    /\ api_response' =
         IF res.api_requests > 0
         THEN [r EXCEPT !.via = ApiTransport(scraperapi_key).via,
                        !.timeout = ApiTransport(scraperapi_key).timeout]
         ELSE NoApi
    /\ page_response' =
         IF res.page_fetches > 0
         THEN [page EXCEPT !.via = PageTransport(scraperapi_key).via,
                           !.timeout = PageTransport(scraperapi_key).timeout]
         ELSE NoPage
    /\ checks_in_stock' = IF res.in_stock THEN checks_in_stock + 1
                          ELSE checks_in_stock
    /\ pc' = IF res.raised THEN "crashed"
             ELSE IF NotifyDue(res.in_stock) THEN "notify" ELSE "sleep"
    /\ UNCHANGED <<config, notify_calls, delivery, tick, notifications>>

\* lines 270-272: POST_CODE is set, check_stock_with_pincode
MonitorWithPincode(apiSet, pageSet) ==
    /\ pc = "check"
    /\ Truthy(post_code)
    /\ \E r \in apiSet, page \in pageSet :
          Dispatch(CheckStockWithPincode(product_url, r, page), r, page)

\* lines 273-275: no POST_CODE, check_stock
MonitorWithScrape(pageSet) ==
    /\ pc = "check"
    /\ ~Truthy(post_code)
    /\ \E page \in pageSet :
          Dispatch(CheckStock(product_url, page), NoApi, page)

\* lines 234-249 and 278-279: the awaited send, delivered or failed
SendTelegramNotification ==
    /\ pc = "notify"
    /\ \E outcome \in {"sent", "TelegramError", "TimedOut"} :
          /\ delivery' = outcome
          /\ pc' = IF SendRaises(outcome) THEN "crashed" ELSE "sleep"
    /\ notify_calls' = notify_calls + 1
    /\ notifications' = notifications + 1
    /\ UNCHANGED <<config, in_stock, product_name, api_response, page_response,
                   api_calls, scrape_calls, tick, checks_in_stock>>

\* line 288 and lines 265-268: the sleep, then the top of the next iteration.
\* The counters of checks and notifications run over windows of MaxTicks
\* iterations.
Sleep ==
    /\ pc = "sleep"
    /\ pc' = "check"
    /\ in_stock' = FALSE
    /\ product_name' = LoopDefaultName(product_url)
    /\ api_response' = NoApi
    /\ page_response' = NoPage
    /\ api_calls' = 0
    /\ scrape_calls' = 0
    /\ notify_calls' = 0
    /\ delivery' = "none"
    /\ IF tick + 1 >= MaxTicks
       THEN tick' = 0 /\ checks_in_stock' = 0 /\ notifications' = 0
       ELSE tick' = tick + 1 /\ UNCHANGED <<checks_in_stock, notifications>>
    /\ UNCHANGED config

Next ==
    \/ MonitorWithPincode(ApiResponses, Pages)
    \/ MonitorWithScrape(Pages)
    \/ SendTelegramNotification
    \/ Sleep

Spec == Init /\ [][Next]_vars

\* the loop under fairness, over a few representative responses: the loop
\* does not stop by itself (time.sleep returns, the awaited send and the
\* requests return or time out), so every enabled step is eventually taken
LoopApiResponses ==
    FailedApi
    \cup {d \in ApiDocs : /\ WellNested(d) /\ d.ctx = "dict" /\ d.pls = "dict"
                          /\ d.title = "T"
                          /\ d.availabilityStatus \in {"IN_STOCK", "OUT_OF_STOCK"}
                          /\ d.isAvailable = "true"
                          /\ d.serviceable \in {"true", "absent"}}

LoopPages ==
    FailedPages
    \cup Canonical(OkPages({TypicalTitle}, {<<>>},
                           {{}, {"jsonld_InStock"}, {"text_SOLD_OUT"}}))

LoopNext ==
    \/ MonitorWithPincode(LoopApiResponses, LoopPages)
    \/ MonitorWithScrape(LoopPages)
    \/ SendTelegramNotification
    \/ Sleep

FairSpec == Init /\ [][LoopNext]_vars /\ WF_vars(LoopNext)

\* the label derivation over many URLs and titles
LabelInit == InitWith(Urls)

LabelNext ==
    \/ MonitorWithPincode(LabelApiResponses, LabelPages(product_url))
    \/ MonitorWithScrape(LabelPages(product_url))
    \/ SendTelegramNotification
    \/ Sleep

LabelSpec == LabelInit /\ [][LabelNext]_vars

(***************************************************************************)
(* The properties.  They are stated over what the network returned         *)
(* (api_response, page_response) and what the loop then holds.             *)
(***************************************************************************)
\* the check of this iteration has returned
Checked == pc \in {"notify", "sleep", "crashed"}

\* what a response looks like on the wire
TransportFailed(r) ==
    r.exc \in {"Timeout", "ConnectionError"}
        \/ (r.exc = "none" /\ ~(r.status_code >= 200 /\ r.status_code < 300))
BodyParsed(r) == ~TransportFailed(r) /\ r.exc = "none" /\ r.is_json
AllThreePresent(r) ==
    /\ r.ctx = "dict" /\ r.pls = "dict"
    /\ r.availabilityStatus # "absent"
    /\ r.isAvailable # "absent"
    /\ r.serviceable # "absent"
PageFetched(p) == p.exc = "none" /\ p.status_code >= 200 /\ p.status_code < 300
IsErrorLabel(label) ==
    /\ Len(label) >= 1
    /\ label[1] \in {"Error fetching product (Timeout)",
                     "Error fetching product (HTTP ",
                     "Error parsing product data"}

\* C1: in every iteration the sender is invoked once when the check returned
\* in stock and not at all otherwise, and across the iterations of a window
\* the number of notifications attempted equals the number of checks that
\* returned in stock (no de-duplication).
C1_NotifyOncePerInStockCheck ==
    /\ notify_calls \in {0, 1}
    /\ pc = "notify" => in_stock /\ notify_calls = 0
                        /\ notifications + 1 = checks_in_stock
    /\ pc = "sleep" => /\ notify_calls = (IF in_stock THEN 1 ELSE 0)
                       /\ notifications = checks_in_stock
    /\ pc = "check" => notify_calls = 0 /\ notifications = checks_in_stock

C1_Witness ==
    pc = "sleep" /\ tick = 1 /\ in_stock /\ checks_in_stock = 2
        /\ notifications = 2

\* C2: fallback purity: when the API body parsed but an availability field
\* is absent or its container malformed, the result is exactly what
\* check_stock returns for the same URL and fetched page; the API title
\* does not reach the result.
C2_FallbackPurity ==
    (Checked /\ api_calls = 1 /\ BodyParsed(api_response)
        /\ ~AllThreePresent(api_response))
    => /\ scrape_calls = 1
       /\ pc # "crashed"
       /\ in_stock = CheckStock(product_url, page_response).in_stock
       /\ product_name = CheckStock(product_url, page_response).label
       /\ product_name # <<"T">>

C2_Witness ==
    /\ pc = "notify" /\ api_calls = 1 /\ BodyParsed(api_response)
    /\ api_response.title = "T"
    /\ api_response.availabilityStatus = "IN_STOCK"
    /\ api_response.isAvailable = "true"
    /\ api_response.serviceable = "absent"
    /\ PageFetched(page_response) /\ page_response.has_title

\* C3: with all three availability fields present, in_stock is true exactly
\* when the status is the literal "IN_STOCK" and both flags are true.
C3_ApiConjunction ==
    (Checked /\ api_calls = 1 /\ BodyParsed(api_response)
        /\ AllThreePresent(api_response))
    => in_stock = (/\ api_response.availabilityStatus = "IN_STOCK"
                   /\ api_response.isAvailable = "true"
                   /\ api_response.serviceable = "true")

C3_Witness ==
    /\ pc = "sleep" /\ ~in_stock /\ api_calls = 1
    /\ BodyParsed(api_response) /\ AllThreePresent(api_response)
    /\ api_response.availabilityStatus = "IN_STOCK"
    /\ api_response.isAvailable = "true"
    /\ api_response.serviceable = "false"

\* C4: a fetched page is classified by the lowest-numbered rule that
\* matches: 1 InStock marker, 2 purchase control, 3 OutOfStock marker or
\* sold out / notify me text, 4 none; rules 1 and 2 mean in stock.
MatchingRules(m) ==
    (IF "jsonld_InStock" \in m THEN {1} ELSE {})
    \cup (IF m \cap {"text_BUY_NOW", "styled_button"} # {} THEN {2} ELSE {})
    \cup (IF m \cap {"jsonld_OutOfStock", "text_SOLD_OUT", "text_NOTIFY_ME"} # {}
          THEN {3} ELSE {})
    \cup {4}
FirstRule(m) == CHOOSE k \in MatchingRules(m) : \A j \in MatchingRules(m) : k <= j

C4_PriorityOrder ==
    (Checked /\ scrape_calls = 1 /\ PageFetched(page_response))
    => in_stock = (FirstRule(page_response.markers) \in {1, 2})

C4_Witness ==
    /\ Checked /\ scrape_calls = 1 /\ PageFetched(page_response)
    /\ {"jsonld_InStock", "text_SOLD_OUT"} \subseteq page_response.markers
    /\ in_stock

\* C5: in_stock is true, and a notification is attempted, only with positive
\* evidence: a conclusive API response satisfying all three conditions, or
\* a fetched page with the InStock marker or a purchase control.
PositiveEvidence ==
    \/ /\ api_calls = 1 /\ scrape_calls = 0
       /\ BodyParsed(api_response) /\ AllThreePresent(api_response)
       /\ api_response.availabilityStatus = "IN_STOCK"
       /\ api_response.isAvailable = "true"
       /\ api_response.serviceable = "true"
    \/ /\ scrape_calls = 1 /\ PageFetched(page_response)
       /\ page_response.markers
            \cap {"jsonld_InStock", "text_BUY_NOW", "styled_button"} # {}

C5_FailSafe ==
    (in_stock \/ pc = "notify" \/ notify_calls > 0) => PositiveEvidence

C5_Witness ==
    /\ pc = "sleep" /\ ~in_stock /\ notify_calls = 0
    /\ api_calls = 1 /\ ~BodyParsed(api_response)
    /\ scrape_calls = 1 /\ PageFetched(page_response)
    /\ page_response.markers = {}

\* C6: when the page fetch fails (timeout, connection error, non-2xx
\* status) check_stock returns out of stock with a label that names the
\* failure class, does not raise, and has fetched exactly once.
C6_ScrapeFailure ==
    (Checked /\ scrape_calls >= 1 /\ TransportFailed(page_response))
    => /\ ~in_stock
       /\ pc = "sleep"
       /\ scrape_calls = 1
       /\ IF page_response.exc = "Timeout"
          THEN product_name = <<"Error fetching product (Timeout)">>
          ELSE /\ Len(product_name) = 3
               /\ product_name[1] = "Error fetching product (HTTP "

C6_Witness ==
    /\ pc = "sleep" /\ scrape_calls = 1 /\ api_calls = 0
    /\ page_response.exc = "none" /\ page_response.status_code = 404

\* C7 (as stated): a transport error never reaches the loop; on the
\* Located-API path it becomes an out-of-stock result with an error label,
\* and on the scrape path it triggers a fallback retrieval.
C7_AsStated ==
    Checked =>
      /\ pc # "crashed"
      /\ (api_calls = 1 /\ TransportFailed(api_response))
            => (~in_stock /\ IsErrorLabel(product_name))
      /\ (scrape_calls >= 1 /\ TransportFailed(page_response))
            => scrape_calls >= 2

\* C7 (amended): a transport error never reaches the loop; on the
\* Located-API path it triggers the fallback to the scrape, whose result is
\* returned as it is, and on the scrape path it becomes an out-of-stock
\* result with an error label, with no further retrieval.
C7_TransportErrors ==
    Checked =>
      /\ pc # "crashed"
      /\ (api_calls = 1 /\ TransportFailed(api_response))
            => /\ scrape_calls = 1
               /\ in_stock = CheckStock(product_url, page_response).in_stock
               /\ product_name = CheckStock(product_url, page_response).label
      /\ (scrape_calls >= 1 /\ TransportFailed(page_response))
            => /\ ~in_stock
               /\ IsErrorLabel(product_name)
               /\ scrape_calls = 1
               /\ api_calls <= 1

C7_Witness ==
    /\ pc = "notify" /\ in_stock
    /\ api_calls = 1 /\ api_response.exc = "ConnectionError"
    /\ scrape_calls = 1 /\ PageFetched(page_response)

\* C8: the loop has no terminal state: a check is followed by the
\* notification (when in stock) or directly by the sleep, a notification,
\* delivered or not, by the sleep, the sleep by the next check, under
\* the same configuration; and with fairness checks recur forever.
C8_LoopNeverStops ==
    /\ [](pc \in {"check", "notify", "sleep"})
    /\ [][/\ pc = "check" => pc' \in {"notify", "sleep"}
          /\ pc = "notify" => pc' = "sleep"
          /\ pc = "sleep" => pc' = "check"
          /\ config' = config]_vars
    /\ (Checked ~> (pc = "check"))
    /\ ((pc = "check") ~> Checked)

C8_Witness ==
    pc = "sleep" /\ in_stock /\ notify_calls = 1 /\ delivery = "TimedOut"

\* the non-empty segments of the path of a URL
PathSegments(url) ==
    LET rest == SubSeq(url, Len(Scheme) + 1, Len(url))
        path == SplitFirst(rest, <<"?">>)
        parts == Split(path, "/")
    IN  {i \in 1..Len(parts) : parts[i] # <<>>}

\* no title can be taken from the page: no <title>, or a <title> that is
\* empty or generic once cleaned and no product-title span
NoPageTitle(p) ==
    \/ ~p.has_title
    \/ /\ ~p.has_span
       /\ LET cleaned == Strip(SplitFirst(SplitFirst(Strip(p.title),
                                  <<" ", "-", " ">>), <<"|">>))
          IN  cleaned = <<>> \/ \E i \in 1..Len(cleaned) : cleaned[i] = "F"

\* C9: for a URL with at least two path segments, when no title can be
\* extracted from the page (check_stock) or from the API title field
\* (check_stock_with_pincode), the label returned is not empty.
C9_LabelTotal ==
    (/\ pc \in {"notify", "sleep"}
     /\ Cardinality(PathSegments(product_url)) >= 2
     /\ \/ scrape_calls = 1 /\ PageFetched(page_response)
           /\ NoPageTitle(page_response)
        \/ scrape_calls = 0 /\ api_calls = 1 /\ api_response.title = "absent")
    => product_name # <<>>

\* C10: with a location code the API is requested once and the scrape runs
\* at most once, exactly when the API attempt was inconclusive (transport
\* failure, unparseable body, missing availability fields); without one the
\* API is not called and the scrape runs once; never more than two
\* retrievals in a check.
ApiInconclusive(r) ==
    TransportFailed(r) \/ ~BodyParsed(r) \/ ~AllThreePresent(r)

C10_SingleLevelFallback ==
    /\ api_calls + scrape_calls <= 2
    /\ pc = "check" => api_calls = 0 /\ scrape_calls = 0
    /\ Checked =>
         IF post_code # "None"
         THEN /\ api_calls = 1
              /\ scrape_calls = (IF ApiInconclusive(api_response) THEN 1 ELSE 0)
         ELSE api_calls = 0 /\ scrape_calls = 1

C10_Witness ==
    /\ pc = "sleep" /\ ~in_stock /\ api_calls = 1 /\ scrape_calls = 0
    /\ api_response.availabilityStatus = "OUT_OF_STOCK"
    /\ api_response.isAvailable = "false"
    /\ api_response.serviceable = "true"

====
